---- MODULE Spec2Model ----
(***************************************************************************)
(* Model of ffmpeg_pipeline.py: one invocation of main() -- the file       *)
(* checks, the ffprobe child (Prober), the keyframe alignment, the command *)
(* construction and the ffmpeg child (Encoder) -- and of the path helper   *)
(* fix_path_for_ffmpeg.                                                    *)
(*                                                                         *)
(* Timestamps are exact multiples of a tick of 0.05 s, so that the clip    *)
(* floor of 0.1 s is MinClip = 2 ticks and differences below the floor     *)
(* exist.  Floating point rounding, infinities and NaN are not modelled.   *)
(* Paths are sequences of one-character strings.                           *)
(***************************************************************************)
EXTENDS Integers, Sequences, FiniteSets, TLC

\* ------------------------------------------------------------------ bounds
\* Largest timestamp (ticks) of a request or a frame.
MaxT == 4
\* Timestamps go down to -NegT ticks (argparse and ffprobe allow negatives).
NegT == 1
\* Largest number of frame records in a Prober answer.
MaxFrames == 2
\* Child exit codes are 0..MaxExit.
MaxExit == 1
\* Longest path argument (characters).
MaxPathLen == 4

\* 0.1 s, the minimum clip length of main, in ticks of 0.05 s.
MinClip == 2

Times == (0 - NegT)..MaxT
ExitCodes == 0..MaxExit
BoundedSeq(S, n) == UNION {[1..k -> S] : k \in 0..n}
Range(sq) == {sq[i] : i \in DOMAIN sq}
MaxOf(S) == CHOOSE x \in S : \A y \in S : y <= x
MinOf(S) == CHOOSE x \in S : \A y \in S : x <= y

\* ------------------------------------------------------------------ paths
Letters == {"a"}
Chars == Letters \cup {":", "/", "\\"}
Platforms == {"posix", "nt"}
\* Current directory of the process: the root (of the current drive on nt).
PosixCwd == <<"/">>
NtCwdDrive == <<"a", ":">>

\* str.replace(old, new) for a one-character old and a string new.
RECURSIVE replace(_, _, _)
replace(str, old, new) ==
    IF str = <<>> THEN <<>>
    ELSE (IF Head(str) = old THEN new ELSE <<Head(str)>>)
         \o replace(Tail(str), old, new)

\* str.replace(old, new, 1): only the first occurrence.
RECURSIVE replace_first(_, _, _)
replace_first(str, old, new) ==
    IF str = <<>> THEN <<>>
    ELSE IF Head(str) = old THEN new \o Tail(str)
    ELSE <<Head(str)>> \o replace_first(Tail(str), old, new)

\* str.split(sep) without the empty components.
RECURSIVE components(_, _, _)
components(str, sep, cur) ==
    IF str = <<>> THEN (IF cur = <<>> THEN <<>> ELSE <<cur>>)
    ELSE IF Head(str) = sep
         THEN (IF cur = <<>> THEN <<>> ELSE <<cur>>) \o components(Tail(str), sep, <<>>)
         ELSE components(Tail(str), sep, Append(cur, Head(str)))

RECURSIVE join(_, _)
join(comps, sep) ==
    IF comps = <<>> THEN <<>>
    ELSE IF Len(comps) = 1 THEN comps[1]
    ELSE comps[1] \o <<sep>> \o join(Tail(comps), sep)

startswith(str, prefix) ==
    Len(str) >= Len(prefix) /\ SubSeq(str, 1, Len(prefix)) = prefix

\* posixpath.join(a, b)
posix_join(a, b) ==
    IF startswith(b, <<"/">>) THEN b
    ELSE IF a = <<>> \/ a[Len(a)] = "/" THEN a \o b
    ELSE a \o <<"/">> \o b

\* posixpath.abspath: join with the cwd unless absolute, then normpath
\* (collapse separators; exactly two leading slashes are kept).
posix_abspath(path) ==
    LET full == posix_join(PosixCwd, path)
        lead == IF startswith(full, <<"/", "/">>) /\ ~startswith(full, <<"/", "/", "/">>)
                THEN <<"/", "/">> ELSE <<"/">>
    IN  lead \o join(components(full, "/", <<>>), "/")

\* ntpath.abspath: both separators are accepted and become backslashes, a
\* path without a drive gets the current drive, a relative path the cwd.
\* A path with two leading separators (UNC) keeps them and gets no drive.
nt_abspath(path) ==
    LET p == replace(path, "/", <<"\\">>)
        hasdrive == Len(p) >= 2 /\ p[1] \in Letters /\ p[2] = ":"
        unc == startswith(p, <<"\\", "\\">>)
        drive == IF hasdrive THEN SubSeq(p, 1, 2) ELSE NtCwdDrive
        rest == IF hasdrive THEN SubSeq(p, 3, Len(p)) ELSE p
    IN  IF unc THEN <<"\\", "\\">> \o join(components(p, "\\", <<>>), "\\")
        ELSE drive \o <<"\\">> \o join(components(rest, "\\", <<>>), "\\")

abspath(platform, path) ==
    IF platform = "nt" THEN nt_abspath(path) ELSE posix_abspath(path)

\* Line 24: os.path.abspath(path).replace("\\", "/")
normalized(platform, path) == replace(abspath(platform, path), "\\", <<"/">>)

\* Lines 25-27: abs_path[1:3] holds the second and third characters.
escape_drive_colon(abs_path) ==
    IF \E i \in 2..3 : i <= Len(abs_path) /\ abs_path[i] = ":"
    THEN replace_first(abs_path, ":", <<"\\", ":">>)
    ELSE abs_path

fix_path_for_ffmpeg(platform, path) == escape_drive_colon(normalized(platform, path))

\* ------------------------------------------------------------ the Prober
\* A frame record of the Prober's JSON answer; a field can be absent.
Frames ==
    {[has_key |-> TRUE, key_frame |-> k, has_pts |-> TRUE, pkt_pts_time |-> t] :
        k \in 0..1, t \in Times}
    \cup {[has_key |-> TRUE, key_frame |-> k, has_pts |-> FALSE, pkt_pts_time |-> 0] :
        k \in 0..1}
    \cup {[has_key |-> FALSE, key_frame |-> 0, has_pts |-> TRUE, pkt_pts_time |-> 0]}
FrameLists == BoundedSeq(Frames, MaxFrames)

RECURSIVE insert_sorted(_, _)
insert_sorted(x, sq) ==
    IF sq = <<>> THEN <<x>>
    ELSE IF x <= Head(sq) THEN <<x>> \o sq
    ELSE <<Head(sq)>> \o insert_sorted(x, Tail(sq))

RECURSIVE sorted(_)
sorted(sq) == IF sq = <<>> THEN <<>> ELSE insert_sorted(Head(sq), sorted(Tail(sq)))

\* f["key_frame"] of a record without that field raises KeyError.
raises_key_error(frames) == \E i \in DOMAIN frames : ~frames[i].has_key

RECURSIVE keyframe_pts(_)
keyframe_pts(frames) ==
    IF frames = <<>> THEN <<>>
    ELSE (IF Head(frames).key_frame = 1 /\ Head(frames).has_pts
          THEN <<Head(frames).pkt_pts_time>> ELSE <<>>)
         \o keyframe_pts(Tail(frames))

\* Lines 52-56, for an answer on which no lookup raises.
get_keyframe_times(frames) == sorted(keyframe_pts(frames))

\* ------------------------------------------------------------ alignment
\* find_keyframe_before_or_equal taking the first match instead of the greatest.
find_keyframe_before_or_equal_first(times, t) ==
    LET c == {kf \in Range(times) : kf <= t}
    IN  IF c = {} THEN 0 ELSE MinOf(c)

\* find_keyframe_before_or_equal falling back to the first keyframe, not 0.0.
find_keyframe_before_or_equal_default_first(times, t) ==
    LET c == {kf \in Range(times) : kf <= t}
    IN  IF c = {} THEN times[1] ELSE MaxOf(c)

\* Line 61: max((kf for kf in times if kf <= t), default=0.0)
find_keyframe_before_or_equal(times, t) ==
    LET c == {kf \in Range(times) : kf <= t}
    IN  IF c = {} THEN 0 ELSE MaxOf(c)

\* find_keyframe_after_or_equal with a strict comparison.
find_keyframe_after_strict(times, t) ==
    LET c == {kf \in Range(times) : kf > t}
    IN  IF c # {} THEN MinOf(c)
        ELSE IF times # <<>> THEN times[Len(times)] ELSE t

\* Line 66: min((kf for kf in times if kf >= t), default=times[-1] if times else t)
find_keyframe_after_or_equal(times, t) ==
    LET c == {kf \in Range(times) : kf >= t}
    IN  IF c # {} THEN MinOf(c)
        ELSE IF times # <<>> THEN times[Len(times)] ELSE t

\* The end correction with a strict comparison: equal ends are let through.
corrected_end_strict(end_kf0, start_kf0, args_end) ==
    IF end_kf0 < start_kf0
    THEN (IF args_end >= start_kf0 + MinClip THEN args_end ELSE start_kf0 + MinClip)
    ELSE end_kf0

\* Lines 131-132
corrected_end(end_kf0, start_kf0, args_end) ==
    IF end_kf0 <= start_kf0
    THEN (IF args_end >= start_kf0 + MinClip THEN args_end ELSE start_kf0 + MinClip)
    ELSE end_kf0

\* Lines 128-135, the start of the aligned range
aligned_start(times, args_start) ==
    IF times # <<>> THEN find_keyframe_before_or_equal(times, args_start)
    ELSE args_start

\* The end correction applied on the no-keyframe path too.
aligned_end_always_corrected(times, args_start, args_end) ==
    IF times # <<>>
    THEN (IF find_keyframe_after_or_equal(times, args_end)
               <= find_keyframe_before_or_equal(times, args_start)
          THEN (IF args_end >= find_keyframe_before_or_equal(times, args_start) + MinClip
                THEN args_end
                ELSE find_keyframe_before_or_equal(times, args_start) + MinClip)
          ELSE find_keyframe_after_or_equal(times, args_end))
    ELSE (IF args_end <= args_start
          THEN (IF args_end >= args_start + MinClip THEN args_end
                ELSE args_start + MinClip)
          ELSE args_end)

\* Lines 128-135, the end of the aligned range
aligned_end(times, args_start, args_end) ==
    IF times # <<>>
    THEN corrected_end(find_keyframe_after_or_equal(times, args_end),
                       find_keyframe_before_or_equal(times, args_start), args_end)
    ELSE args_end

\* The duration without its floor.
clip_duration_no_floor(start_kf0, end_kf0) == end_kf0 - start_kf0

\* Line 137: max(0.1, end_kf - start_kf)
clip_duration(start_kf0, end_kf0) ==
    IF end_kf0 - start_kf0 > MinClip THEN end_kf0 - start_kf0 ELSE MinClip

\* Lines 84-108: the parts of the argument list that vary.
build_ffmpeg_command(platform, srt_path, start_kf0, duration0) ==
    [ss |-> start_kf0, t |-> duration0,
     subtitles |-> srt_path # <<>>,
     srt_fixed |-> IF srt_path # <<>> THEN fix_path_for_ffmpeg(platform, srt_path)
                   ELSE <<>>]

NoCmd == [ss |-> 0, t |-> 0, subtitles |-> FALSE, srt_fixed |-> <<>>]

\* ------------------------------------------------------------------ state
VARIABLES
    os_name,        \* platform flavour of os.path
    pc,             \* position of main: parsed, scan, align, run, exit, fatal, off
    input_isfile,   \* os.path.isfile(args.input)
    srt,            \* args.srt; <<>> stands for an absent or empty (falsy) value
    srt_isfile,     \* os.path.isfile(args.srt)
    args_start, args_end,
    keyframes, start_kf, end_kf, duration, cmd,
    probes,         \* Prober children that ran
    probe_status,   \* not_run, ok, failed
    encodes,        \* Encoder children that ran
    returncode,     \* exit code of the Encoder, once encodes > 0
    out,            \* console messages of main, in order
    path, abs_path, fixed, ppc   \* a call of fix_path_for_ffmpeg on its own

vars == <<os_name, pc, input_isfile, srt, srt_isfile, args_start, args_end,
          keyframes, start_kf, end_kf, duration, cmd, probes, probe_status,
          encodes, returncode, out, path, abs_path, fixed, ppc>>

pathVars == <<path, abs_path, fixed, ppc>>
argVars == <<os_name, input_isfile, srt, srt_isfile, args_start, args_end>>
alignVars == <<keyframes, start_kf, end_kf, duration, cmd>>

\* --srt values of the pipeline runs
SrtArgs == {<<>>, <<"/", "a">>, <<"a", ":", "/", "a">>}

Printed(m) == m \in Range(out)

MainBlank ==
    /\ keyframes = <<>> /\ start_kf = 0 /\ end_kf = 0 /\ duration = 0
    /\ cmd = NoCmd /\ probes = 0 /\ probe_status = "not_run"
    /\ encodes = 0 /\ returncode = 0 /\ out = <<>>

\* main after parse_args (line 118)
Init ==
    /\ pc = "parsed"
    /\ os_name \in Platforms
    /\ input_isfile \in BOOLEAN
    /\ srt \in SrtArgs
    /\ srt_isfile \in BOOLEAN
    /\ args_start \in Times
    /\ args_end \in Times
    /\ MainBlank
    /\ path = <<>> /\ abs_path = <<>> /\ fixed = <<>> /\ ppc = "off"

\* The file checks without the subtitle check.
CheckFilesInputOnly ==
    /\ pc = "parsed"
    /\ IF ~input_isfile THEN pc' = "fatal" ELSE pc' = "scan"
    /\ UNCHANGED <<argVars, alignVars, probes, probe_status, encodes, returncode,
                   out, pathVars>>

\* Lines 120-123
CheckFiles ==
    /\ pc = "parsed"
    /\ IF ~input_isfile THEN pc' = "fatal"
       ELSE IF srt # <<>> /\ ~srt_isfile THEN pc' = "fatal"
       ELSE pc' = "scan"
    /\ UNCHANGED <<argVars, alignVars, probes, probe_status, encodes, returncode,
                   out, pathVars>>

\* Lines 125-126, the Prober answers with well-formed frames
ProbeOk ==
    /\ pc = "scan"
    /\ \E frames \in FrameLists :
          /\ ~raises_key_error(frames)
          /\ keyframes' = get_keyframe_times(frames)
    /\ probes' = probes + 1
    /\ probe_status' = "ok"
    /\ out' = Append(out, "scanning")
    /\ pc' = "align"
    /\ UNCHANGED <<argVars, start_kf, end_kf, duration, cmd, encodes, returncode,
                   pathVars>>

\* A Prober failure swallowed: main goes on without keyframes.
ProbeFailureDegrades ==
    /\ pc = "scan"
    /\ \E cause \in {"spawn", "exit", "json", "keyerror"} :
          probes' = IF cause = "spawn" THEN probes ELSE probes + 1
    /\ probe_status' = "failed"
    /\ keyframes' = <<>>
    /\ out' = Append(out, "scanning")
    /\ pc' = "align"
    /\ UNCHANGED <<argVars, start_kf, end_kf, duration, cmd, encodes, returncode,
                   pathVars>>

\* Lines 125-126, the Prober cannot be started, exits non-zero, or answers
\* with bad JSON or with a frame lacking key_frame: the exception leaves main.
ProbeFailure ==
    /\ pc = "scan"
    /\ \E cause \in {"spawn", "exit", "json", "keyerror"} :
          /\ cause = "keyerror" => \E frames \in FrameLists : raises_key_error(frames)
          /\ probes' = IF cause = "spawn" THEN probes ELSE probes + 1
    /\ probe_status' = "failed"
    /\ out' = Append(out, "scanning")
    /\ pc' = "fatal"
    /\ UNCHANGED <<argVars, alignVars, encodes, returncode, pathVars>>

\* Lines 128-141
Align ==
    /\ pc = "align"
    /\ start_kf' = aligned_start(keyframes, args_start)
    /\ end_kf' = aligned_end(keyframes, args_start, args_end)
    /\ duration' = clip_duration(start_kf', end_kf')
    /\ cmd' = build_ffmpeg_command(os_name, srt, start_kf', duration')
    /\ out' = out \o (IF keyframes = <<>> THEN <<"no_keyframes">> ELSE <<>>)
                  \o <<"requested", "aligned">>
    /\ pc' = "run"
    /\ UNCHANGED <<argVars, keyframes, probes, probe_status, encodes, returncode,
                   pathVars>>

\* run_cmd without its raise: every exit code counts as success.
RunCmdNoRaise ==
    /\ pc = "run"
    /\ \E rc \in ExitCodes :
          /\ returncode' = rc
          /\ out' = out \o <<"cmd", "done">>
    /\ encodes' = encodes + 1
    /\ pc' = "exit"
    /\ UNCHANGED <<argVars, alignVars, probes, probe_status, pathVars>>

\* Lines 143-147 with run_cmd (lines 32-38): the Encoder runs and exits.
RunCmd ==
    /\ pc = "run"
    /\ \E rc \in ExitCodes :
          /\ returncode' = rc
          /\ out' = out \o <<"cmd">> \o (IF rc # 0 THEN <<"failed">> ELSE <<"done">>)
    /\ encodes' = encodes + 1
    /\ pc' = "exit"
    /\ UNCHANGED <<argVars, alignVars, probes, probe_status, pathVars>>

\* Lines 143-147: Popen cannot start the Encoder; OSError is not caught.
EncoderSpawnFailure ==
    /\ pc = "run"
    /\ out' = Append(out, "cmd")
    /\ pc' = "fatal"
    /\ UNCHANGED <<argVars, alignVars, probes, probe_status, encodes, returncode,
                   pathVars>>

Next ==
    \/ CheckFiles
    \/ ProbeOk
    \/ ProbeFailure
    \/ Align
    \/ RunCmd
    \/ EncoderSpawnFailure

Spec == Init /\ [][Next]_vars

\* ------------------------------------------- fix_path_for_ffmpeg on its own
PathArgs == BoundedSeq(Chars, MaxPathLen)

PathInit ==
    /\ pc = "off"
    /\ os_name \in Platforms
    /\ input_isfile = TRUE /\ srt = <<>> /\ srt_isfile = FALSE
    /\ args_start = 0 /\ args_end = 0
    /\ MainBlank
    /\ path \in PathArgs
    /\ abs_path = <<>> /\ fixed = <<>> /\ ppc = "call"

\* Lines 24-27
FixPath ==
    /\ ppc = "call"
    /\ abs_path' = normalized(os_name, path)
    /\ fixed' = fix_path_for_ffmpeg(os_name, path)
    /\ ppc' = "returned"
    /\ UNCHANGED <<argVars, alignVars, pc, probes, probe_status, encodes,
                   returncode, out, path>>

PathNext == FixPath

PathSpec == PathInit /\ [][PathNext]_vars

\* ------------------------------------------------------------------ claims
Aligned == Printed("aligned")
KeyframesAtOrBefore(t) == {kf \in Range(keyframes) : kf <= t}
KeyframesAtOrAfter(t) == {kf \in Range(keyframes) : kf >= t}
IsGreatest(x, S) == x \in S /\ \A y \in S : y <= x
IsLeast(x, S) == x \in S /\ \A y \in S : x <= y

\* C1: with a non-empty sorted keyframe sequence and start <= end, the aligned
\* start is the greatest keyframe <= start, or 0.0 when no keyframe is <= start.
C1_StartIsGreatestKeyframeAtOrBefore ==
    (Aligned /\ keyframes # <<>> /\ args_start <= args_end) =>
        IF KeyframesAtOrBefore(args_start) = {} THEN start_kf = 0
        ELSE IsGreatest(start_kf, KeyframesAtOrBefore(args_start))

C1_Witness ==
    /\ Aligned /\ Len(keyframes) >= 2 /\ args_start <= args_end
    /\ keyframes[1] < start_kf /\ start_kf < args_start

\* C2 as stated: with a non-empty keyframe sequence and start <= end, the final
\* aligned end is a keyframe >= end, or the last keyframe when none is >= end.
C2_EndIsKeyframeAtOrAfter ==
    (Aligned /\ keyframes # <<>> /\ args_start <= args_end) =>
        IF KeyframesAtOrAfter(args_end) = {} THEN IsGreatest(end_kf, Range(keyframes))
        ELSE end_kf \in KeyframesAtOrAfter(args_end)

\* C2 amended: the final aligned end is the least keyframe >= end (the last
\* keyframe when none is >= end) unless that keyframe is <= the aligned start;
\* in that case it is max(end, aligned start + 0.1).
C2_EndIsKeyframeUnlessCorrected ==
    (Aligned /\ keyframes # <<>> /\ args_start <= args_end) =>
        \E raw \in Range(keyframes) :
            /\ IF KeyframesAtOrAfter(args_end) = {} THEN IsGreatest(raw, Range(keyframes))
               ELSE IsLeast(raw, KeyframesAtOrAfter(args_end))
            /\ IF raw <= start_kf
               THEN IsGreatest(end_kf, {args_end, start_kf + MinClip})
               ELSE end_kf = raw

C2_Witness ==
    /\ Aligned /\ keyframes # <<>> /\ args_start <= args_end
    /\ end_kf \notin Range(keyframes)

\* C3: for every keyframe sequence and every requested range, the duration
\* handed to build_ffmpeg_command is at least 0.1.
C3_DurationAtLeastFloor ==
    Aligned => (duration >= MinClip /\ cmd.t = duration)

C3_Witness ==
    Aligned /\ args_end < args_start /\ duration = MinClip /\ cmd.t = MinClip

NonNegativeRequest ==
    /\ keyframes # <<>> /\ \A kf \in Range(keyframes) : kf >= 0
    /\ 0 <= args_start /\ args_start <= args_end

Spans == start_kf <= args_start /\ end_kf >= args_end /\ start_kf + duration >= args_end

\* C5 as stated: with non-empty non-negative keyframes and 0 <= start <= end
\* the clip [aligned start, aligned start + duration] contains [start, end].
C5_ClipSpansRequest == (Aligned /\ NonNegativeRequest) => Spans

\* C5 amended: the same, provided some keyframe is >= end.
C5_ClipSpansRequestUpToLastKeyframe ==
    (Aligned /\ NonNegativeRequest /\ KeyframesAtOrAfter(args_end) # {}) => Spans

C5_Witness ==
    /\ Aligned /\ NonNegativeRequest /\ KeyframesAtOrAfter(args_end) # {}
    /\ start_kf < args_start /\ end_kf > args_end

\* C6: with no keyframes the aligned range is the requested range itself and
\* the duration handed to the Encoder is max(0.1, end - start).
C6_NoKeyframePassthrough ==
    (Aligned /\ keyframes = <<>>) =>
        /\ start_kf = args_start /\ end_kf = args_end
        /\ IsGreatest(duration, {MinClip, args_end - args_start})
        /\ cmd.ss = args_start /\ cmd.t = duration

C6_Witness ==
    /\ Aligned /\ keyframes = <<>> /\ Printed("no_keyframes")
    /\ args_end <= args_start /\ end_kf = args_end /\ duration = MinClip

\* C7: on the normalized absolute path, fix_path_for_ffmpeg escapes a colon
\* exactly when the path begins with a letter followed by a colon, and then
\* only that colon; every other path comes back unchanged.
C7_EscapesOnlyDriveColon ==
    ppc = "returned" =>
        IF Len(abs_path) >= 2 /\ abs_path[1] \in Letters /\ abs_path[2] = ":"
        THEN fixed = <<abs_path[1], "\\", ":">> \o SubSeq(abs_path, 3, Len(abs_path))
        ELSE fixed = abs_path

\* C8: a missing input file, or a given and missing subtitle file, ends main
\* fatally before any child is started.
C8_MissingFileIsFatalBeforeChildren ==
    (pc # "off" /\ (~input_isfile \/ (srt # <<>> /\ ~srt_isfile))) =>
        /\ pc \in {"parsed", "fatal"}
        /\ probes = 0 /\ encodes = 0 /\ probe_status = "not_run"

C8_Witness ==
    pc = "fatal" /\ input_isfile /\ srt # <<>> /\ ~srt_isfile /\ probes = 0

\* C9: a non-zero Encoder exit is caught: failure banner, no success banner,
\* no second Encoder, normal end; the success banner needs exit code 0.
C9_EncodeFailureIsCaught ==
    /\ (encodes > 0 /\ returncode # 0) =>
          /\ pc = "exit" /\ encodes = 1
          /\ Printed("failed") /\ ~Printed("done")
    /\ Printed("done") => (encodes = 1 /\ returncode = 0 /\ pc = "exit")

C9_Witness ==
    pc = "exit" /\ encodes = 1 /\ returncode # 0 /\ Printed("failed")

\* C10: at most one Prober and one Encoder per invocation; the Encoder only
\* after a successful Prober and the alignment; a Prober failure is fatal and
\* the Encoder never starts.
C10_StrictSequence ==
    /\ probes <= 1 /\ encodes <= 1
    /\ encodes > 0 => (probes = 1 /\ probe_status = "ok" /\ Aligned)
    /\ pc = "run" => (probe_status = "ok" /\ Aligned)
    /\ probe_status = "failed" => (pc = "fatal" /\ encodes = 0 /\ ~Aligned)

C10_Witness ==
    probe_status = "failed" /\ probes = 1 /\ pc = "fatal" /\ encodes = 0

====
